---- MODULE Spec2Model ----
(***************************************************************************)
(* Model of react/src/attention/AttentionHeads.tsx: the head colour        *)
(* function, the head selector, and the AttentionHeads component with its  *)
(* two hover-lock instances, the tokens view mode and the memoized         *)
(* per-token colouring.                                                    *)
(***************************************************************************)
EXTENDS Integers, Sequences, FiniteSets, TLC

VARIABLES
    attention,           \* prop: the tensor [heads][dest][src], or absent
    attentionHeadNames,  \* prop: optional list of head names
    showTokens,          \* prop: boolean, default true
    focused,             \* heads hover-lock: focused index (or NoIndex)
    locked,              \* heads hover-lock: lock flag
    focussedToken,       \* tokens hover-lock: focused index (or NoIndex)
    lockedToken,         \* tokens hover-lock: lock flag
    tokensView,          \* useState<TokensView>
    coloredAttention,    \* the value held by useMemo
    memoDeps,            \* the dependency list useMemo computed it for
    status,              \* outcome of the last render: "rendered" / "TypeError"
    lastEvent,           \* the DOM event (or prop change) handled last
    cIdx, cN, cAlpha,    \* arguments of a direct call of attentionHeadColor
    cColor,              \* its result ("" before the call)
    gridHues             \* the hue of every cell of a grid of cN heads

vars == <<attention, attentionHeadNames, showTokens, focused, locked,
          focussedToken, lockedToken, tokensView, coloredAttention, memoDeps,
          status, lastEvent, cIdx, cN, cAlpha, cColor, gridHues>>

compVars == <<attention, attentionHeadNames, showTokens, focused, locked,
              focussedToken, lockedToken, tokensView, coloredAttention,
              memoDeps, status, lastEvent>>

colorVars == <<cIdx, cN, cAlpha, cColor, gridHues>>

----------------------------------------------------------------------------
(* Bounds of the model. *)

MaxHeads == 2        \* heads of a tensor: 0..MaxHeads
MaxDest == 1         \* destination positions: 0..MaxDest
MaxSrc == 1          \* source positions: 0..MaxSrc
MaxColorHeads == 80  \* head counts of the direct colour calls: 1..MaxColorHeads
MaxGridHeads == 720  \* head counts of the colour grids: 1..MaxGridHeads

----------------------------------------------------------------------------
(* IEEE-754 double arithmetic, as far as Math.round((idx / n) * 360) needs *)
(* it. A positive double is [m, e]: m the 53-bit significand as five       *)
(* limbs <<1 bit, 13 bits, 13 bits, 13 bits, 13 bits>>, most significant   *)
(* first, and the value is m * 2^(e - 52). Zero is FZero.                  *)

LimbBase == 8192

RECURSIVE Pow2(_)
Pow2(k) == IF k = 0 THEN 1 ELSE 2 * Pow2(k - 1)

RECURSIVE BitLength(_)
BitLength(t) == IF t = 0 THEN 0 ELSE 1 + BitLength(t \div 2)

FZero == [m |-> <<0, 0, 0, 0, 0>>, e |-> 0]

RECURSIVE IncLimbs(_, _)
IncLimbs(m, j) ==
    IF m[j] + 1 < LimbBase
    THEN [m EXCEPT ![j] = @ + 1]
    ELSE IncLimbs([m EXCEPT ![j] = 0], j - 1)

\* Round to nearest, ties to even: the significand m (truncated) goes one
\* unit up when `up`; a significand of all ones carries into the exponent.
RoundSignificand(m, e, up) ==
    IF ~up THEN [m |-> m, e |-> e]
    ELSE IF m = <<1, LimbBase - 1, LimbBase - 1, LimbBase - 1, LimbBase - 1>>
    THEN [m |-> <<1, 0, 0, 0, 0>>, e |-> e + 1]
    ELSE [m |-> IncLimbs(m, 5), e |-> e]

\* Scale a / b into [1, 2): <<a', b', e>> with a / b = (a' / b') * 2^e.
RECURSIVE Normalize(_, _, _)
Normalize(a, b, e) ==
    IF a < b THEN Normalize(2 * a, b, e - 1)
    ELSE IF a >= 2 * b THEN Normalize(a, 2 * b, e + 1)
    ELSE <<a, b, e>>

\* The double nearest to i / n, for integers i >= 0 and n > 0 (both exactly
\* representable): long division, 13 bits at a time.
FDiv(i, n) ==
    IF i = 0 THEN FZero
    ELSE
      LET nz == Normalize(i, n, 0)
          a == nz[1]
          b == nz[2]
          r0 == a - b
          l1 == (r0 * LimbBase) \div b
          r1 == (r0 * LimbBase) % b
          l2 == (r1 * LimbBase) \div b
          r2 == (r1 * LimbBase) % b
          l3 == (r2 * LimbBase) \div b
          r3 == (r2 * LimbBase) % b
          l4 == (r3 * LimbBase) \div b
          r4 == (r3 * LimbBase) % b
          up == 2 * r4 > b \/ (2 * r4 = b /\ l4 % 2 = 1)
      IN RoundSignificand(<<1, l1, l2, l3, l4>>, nz[3], up)

\* The double nearest to x * c, for a double x and an integer 1 <= c < 8192.
FMul(x, c) ==
    IF x = FZero THEN FZero
    ELSE
      LET t4 == x.m[5] * c
          t3 == x.m[4] * c + (t4 \div LimbBase)
          t2 == x.m[3] * c + (t3 \div LimbBase)
          t1 == x.m[2] * c + (t2 \div LimbBase)
          top == x.m[1] * c + (t1 \div LimbBase)
          p == <<top, t1 % LimbBase, t2 % LimbBase, t3 % LimbBase, t4 % LimbBase>>
          sh == BitLength(top) - 1
          s == Pow2(sh)
          out == [j \in 1..5 |->
                    IF j = 1 THEN top \div s
                    ELSE (p[j - 1] % s) * (LimbBase \div s) + (p[j] \div s)]
          d == p[5] % s
          up == sh > 0 /\ (2 * d > s \/ (2 * d = s /\ out[5] % 2 = 1))
      IN RoundSignificand(out, x.e + sh, up)

\* Math.ceil in the place of Math.round.
MathRound_ceil(x) ==
    IF x = FZero THEN 0
    ELSE IF x.e < 0 THEN 1
    ELSE
      LET s == Pow2(13 - x.e)
          fraction == x.m[2] % s # 0 \/ x.m[3] # 0 \/ x.m[4] # 0 \/ x.m[5] # 0
      IN CASE x.e <= 12 ->
              x.m[1] * Pow2(x.e) + (x.m[2] \div s) + (IF fraction THEN 1 ELSE 0)

\* Math.floor in the place of Math.round.
MathRound_floor(x) ==
    IF x = FZero \/ x.e < 0 THEN 0
    ELSE CASE x.e <= 12 -> x.m[1] * Pow2(x.e) + (x.m[2] \div Pow2(13 - x.e))

\* Math.round of a non-negative double below 8192: the nearest integer, a
\* fraction of exactly one half going up.
MathRound(x) ==
    IF x = FZero \/ x.e < -1 THEN 0
    ELSE IF x.e = -1 THEN 1
    ELSE
      LET s == Pow2(13 - x.e)
      IN CASE x.e <= 12 ->
              x.m[1] * Pow2(x.e) + (x.m[2] \div s) + ((x.m[2] % s) \div (s \div 2))

----------------------------------------------------------------------------
(* JavaScript values. *)

\* `undefined` where a number (an index into an array) is expected.
NoIndex == -1

\* An optional prop: Some(v), or Absent(v0) with v0 an empty value of the
\* prop's type.
Some(v) == [defined |-> TRUE, value |-> v]
Absent == [defined |-> FALSE, value |-> <<>>]

Digits == <<"0", "1", "2", "3", "4", "5", "6", "7", "8", "9">>

\* String(k) of a non-negative integer, as a template literal inserts it.
RECURSIVE NumberToString(_)
NumberToString(k) ==
    IF k < 10 THEN Digits[k + 1]
    ELSE NumberToString(k \div 10) \o Digits[(k % 10) + 1]

\* arr[i] in JavaScript (0-based), for an array of strings: "undefined"
\* stands for the value undefined outside the array.
StringAt(arr, i) == IF i + 1 \in DOMAIN arr THEN arr[i + 1] ELSE "undefined"

----------------------------------------------------------------------------
(* attentionHeadColor *)

\* Math.round(idx / numberOfHeads) * 360: the rounding before the scaling.
hueValue_roundFirst(idx, numberOfHeads) ==
    MathRound(FDiv(idx, numberOfHeads)) * 360

\* const hue = Math.round((idx / numberOfHeads) * 360), for an index
\* idx >= 0 and numberOfHeads > 0.
hueValue(idx, numberOfHeads) ==
    MathRound(FMul(FDiv(idx, numberOfHeads), 360))

\* ${hue} in the template: idx undefined or 0 / 0 gives NaN, i / 0 gives
\* Infinity.
hue(idx, numberOfHeads) ==
    IF idx = NoIndex THEN "NaN"
    ELSE IF numberOfHeads = 0 THEN (IF idx = 0 THEN "NaN" ELSE "Infinity")
    ELSE NumberToString(hueValue(idx, numberOfHeads))

attentionHeadColor(idx, numberOfHeads, alpha) ==
    "hsla(" \o hue(idx, numberOfHeads) \o ", 70%, 50%,  " \o alpha \o ")"

----------------------------------------------------------------------------
(* Props of AttentionHeads. *)

\* A tensor of the shape [ heads x dest_pos x src_pos ]; the weights
\* themselves are only handed on to the collaborators and are all 0 here.
Tensor(h, d, s) == [i \in 1..h |-> [j \in 1..d |-> [k \in 1..s |-> 0]]]

Tensors == {Tensor(h, d, s) : h \in 0..MaxHeads, d \in 0..MaxDest, s \in 0..MaxSrc}

AttentionProps == {Absent} \cup {Some(t) : t \in Tensors}

\* Caller-supplied head names: the first k of "L0H0", "L0H1", ...
SuppliedNames(k) == [i \in 1..k |-> "L0H" \o NumberToString(i - 1)]

HeadNamesProps == {Absent} \cup {Some(SuppliedNames(k)) : k \in 0..MaxHeads}

TokensView == {"DESTINATION_TO_SOURCE", "SOURCE_TO_DESTINATION"}

\* attention.length
numberOfHeads == Len(attention.value)

----------------------------------------------------------------------------
(* useHoverLock: one instance is [focused, locked]. *)

useHoverLock(defaultIndex) == [focused |-> defaultIndex, locked |-> FALSE]

onMouseEnter(s, index) ==
    IF s.locked THEN s ELSE [s EXCEPT !.focused = index]

onMouseLeave(s, defaultIndex) ==
    IF s.locked THEN s ELSE [s EXCEPT !.focused = defaultIndex]

onClick(s, index) ==
    IF s.locked /\ s.focused = index
    THEN [s EXCEPT !.locked = FALSE]
    ELSE [focused |-> index, locked |-> TRUE]

\* useHoverLock() for the heads, without the default 0.
HeadsDefault_none == NoIndex

\* The default focus each instance of AttentionHeads is created with.
HeadsDefault == 0
TokensDefault == NoIndex

----------------------------------------------------------------------------
(* Rendering AttentionHeads. *)

\* The result of colorAttentionTensors(t), or null.
Null == [data |-> FALSE, of |-> <<>>]
Colored(t) == [data |-> TRUE, of |-> t]

NoDeps == <<>>

\* attentionHeadNames || attention.map((_, idx) => `Head ${idx}`)
\* (an empty array is truthy; attention is absent only where this throws).
headNames(att, names) ==
    IF names.defined THEN names.value
    ELSE [i \in 1..Len(att.value) |-> "Head " \o NumberToString(i - 1)]

\* The guard without its check of the source positions.
ColorAttention_noSrcCheck(att, show) ==
    IF ~show \/ ~att.defined \/ Len(att.value) = 0 THEN Null
    ELSE IF Len(att.value[1]) = 0 THEN Null
    ELSE Colored(att.value)

\* The function given to useMemo.
ColorAttention(att, show) ==
    IF ~show \/ ~att.defined \/ Len(att.value) = 0 THEN Null
    ELSE
      LET numHeads == Len(att.value)
          numDestTokens == Len(att.value[1])
          numSrcTokens == IF Len(att.value[1]) = 0 THEN 0
                          ELSE Len(att.value[1][1])
      IN IF numDestTokens = 0 \/ numSrcTokens = 0 \/ numHeads = 0 THEN Null
         ELSE Colored(att.value)

\* useMemo(fn, [attention]): showTokens left out of the dependencies.
useMemo_missingDep(att, show, oldValue, oldDeps) ==
    IF oldDeps # NoDeps /\ oldDeps[1] = att THEN oldValue
    ELSE ColorAttention(att, show)

\* useMemo(fn, [attention, showTokens]): fn runs when a dependency changed.
useMemo(att, show, oldValue, oldDeps) ==
    IF oldDeps = <<att, show>> THEN oldValue ELSE ColorAttention(att, show)

\* One run of the function AttentionHeads: what it leaves in useMemo and
\* whether it returns its elements or throws. attention.map (without
\* names) throws before useMemo runs, attention.length after it.
Render(att, names, show, oldValue, oldDeps) ==
    IF ~names.defined /\ ~att.defined
    THEN [status |-> "TypeError", value |-> oldValue, deps |-> oldDeps]
    ELSE [status |-> IF att.defined THEN "rendered" ELSE "TypeError",
          value |-> useMemo(att, show, oldValue, oldDeps),
          deps |-> <<att, show>>]

\* What the rendered elements show.
isFocused(idx) == focused = idx

SelectorLabel(idx) == StringAt(headNames(attention, attentionHeadNames), idx)

ZoomedLabel == StringAt(headNames(attention, attentionHeadNames), focused)

\* The zoomed label always in the colour of head 0.
ZoomedColor_headZero == attentionHeadColor(0, numberOfHeads, "100%")

ZoomedColor == attentionHeadColor(focused, numberOfHeads, "100%")

\* arr[i] in JavaScript for an array of matrices.
MatrixAt(arr, i) == IF i + 1 \in DOMAIN arr THEN Some(arr[i + 1]) ELSE Absent

\* A cell of the selector: border, label background, glow and heatmap.
CellBorderColor(idx) == attentionHeadColor(idx, numberOfHeads, "100%")

CellLabelBackground(idx) == attentionHeadColor(idx, numberOfHeads, "100%")

CellBoxShadow(idx) ==
    IF isFocused(idx)
    THEN "0px 0px 4px 3px " \o attentionHeadColor(idx, numberOfHeads, "60%")
    ELSE "undefined"

CellAttention(idx) == MatrixAt(attention.value, idx)

\* The zoomed heatmap, attention[focused], and focusedHead of Tokens.
ZoomedAttention == MatrixAt(attention.value, focused)

TokensFocusedHead == focused

TokensShown == showTokens /\ coloredAttention.data

\* The cells of the selector: attention.map((headAttention, idx) => ...).
HeadCells == 0..(numberOfHeads - 1)

\* The tokens of the overlay: one per destination position (the list of
\* tokens has the length of the list of values).
TokenCells ==
    IF numberOfHeads = 0 THEN {} ELSE 0..(Len(attention.value[1]) - 1)

----------------------------------------------------------------------------
(* The component: mounting, pointer events, the view select, new props. *)

Event(region, type, index) == [region |-> region, type |-> type, index |-> index]

ColorIdle ==
    cIdx = 0 /\ cN = 1 /\ cAlpha = "100%" /\ cColor = "" /\ gridHues = <<>>

Init ==
    /\ attention \in AttentionProps
    /\ attentionHeadNames \in HeadNamesProps
    /\ showTokens \in BOOLEAN
    /\ focused = useHoverLock(HeadsDefault).focused
    /\ locked = useHoverLock(HeadsDefault).locked
    /\ focussedToken = useHoverLock(TokensDefault).focused
    /\ lockedToken = useHoverLock(TokensDefault).locked
    /\ tokensView = "DESTINATION_TO_SOURCE"
    /\ LET r == Render(attention, attentionHeadNames, showTokens, Null, NoDeps)
       IN /\ status = r.status
          /\ coloredAttention = r.value
          /\ memoDeps = r.deps
    /\ lastEvent = Event("component", "mount", NoIndex)
    /\ ColorIdle

\* The re-render that follows every state or prop change.
Rerender(att, names, show) ==
    LET r == Render(att, names, show, coloredAttention, memoDeps)
    IN /\ status' = r.status
       /\ coloredAttention' = r.value
       /\ memoDeps' = r.deps

HeadsState == [focused |-> focused, locked |-> locked]
TokensState == [focused |-> focussedToken, locked |-> lockedToken]

HeadsEvent(type, idx, s) ==
    /\ status = "rendered"
    /\ focused' = s.focused
    /\ locked' = s.locked
    /\ lastEvent' = Event("heads", type, idx)
    /\ Rerender(attention, attentionHeadNames, showTokens)
    /\ UNCHANGED <<attention, attentionHeadNames, showTokens, focussedToken,
                   lockedToken, tokensView>>
    /\ UNCHANGED colorVars

TokensEvent(type, idx, s) ==
    /\ status = "rendered"
    /\ TokensShown
    /\ focussedToken' = s.focused
    /\ lockedToken' = s.locked
    /\ lastEvent' = Event("tokens", type, idx)
    /\ Rerender(attention, attentionHeadNames, showTokens)
    /\ UNCHANGED <<attention, attentionHeadNames, showTokens, focused, locked,
                   tokensView>>
    /\ UNCHANGED colorVars

\* onMouseEnter={() => onClick(idx)}
MouseEnterHead_clicks(idx) == HeadsEvent("mouseenter", idx, onClick(HeadsState, idx))

MouseEnterHead(idx) == HeadsEvent("mouseenter", idx, onMouseEnter(HeadsState, idx))

\* onMouseLeave={() => onMouseEnter(idx)}
MouseLeaveHead_enters(idx) == HeadsEvent("mouseleave", idx, onMouseEnter(HeadsState, idx))

\* onMouseLeave={() => onClick(idx)}
MouseLeaveHead_clicks(idx) == HeadsEvent("mouseleave", idx, onClick(HeadsState, idx))

MouseLeaveHead(idx) == HeadsEvent("mouseleave", idx, onMouseLeave(HeadsState, HeadsDefault))

\* onClick={() => onClick(idx + 1)}
ClickHead_offByOne(idx) == HeadsEvent("click", idx, onClick(HeadsState, idx + 1))

\* onClick={() => onMouseEnter(idx)}
ClickHead_enters(idx) == HeadsEvent("click", idx, onMouseEnter(HeadsState, idx))

ClickHead(idx) == HeadsEvent("click", idx, onClick(HeadsState, idx))

MouseEnterToken(idx) == TokensEvent("mouseenter", idx, onMouseEnter(TokensState, idx))

MouseLeaveToken(idx) == TokensEvent("mouseleave", idx, onMouseLeave(TokensState, TokensDefault))

\* The token click handed to the handler of the heads instance.
ClickToken_onHeads(idx) ==
    /\ status = "rendered"
    /\ TokensShown
    /\ focused' = onClick(HeadsState, idx).focused
    /\ locked' = onClick(HeadsState, idx).locked
    /\ lastEvent' = Event("tokens", "click", idx)
    /\ Rerender(attention, attentionHeadNames, showTokens)
    /\ UNCHANGED <<attention, attentionHeadNames, showTokens, focussedToken,
                   lockedToken, tokensView>>
    /\ UNCHANGED colorVars

ClickToken(idx) == TokensEvent("click", idx, onClick(TokensState, idx))

\* A change of view that also drops the token selection.
ChangeTokensView_clearsToken(view) ==
    /\ status = "rendered"
    /\ TokensShown
    /\ view # tokensView
    /\ tokensView' = view
    /\ focussedToken' = TokensDefault
    /\ lockedToken' = FALSE
    /\ lastEvent' = Event("select", "change", NoIndex)
    /\ Rerender(attention, attentionHeadNames, showTokens)
    /\ UNCHANGED <<attention, attentionHeadNames, showTokens, focused, locked>>
    /\ UNCHANGED colorVars

\* onChange of the select: setTokensView(e.target.value).
ChangeTokensView(view) ==
    /\ status = "rendered"
    /\ TokensShown
    /\ view # tokensView
    /\ tokensView' = view
    /\ lastEvent' = Event("select", "change", NoIndex)
    /\ Rerender(attention, attentionHeadNames, showTokens)
    /\ UNCHANGED <<attention, attentionHeadNames, showTokens, focused, locked,
                   focussedToken, lockedToken>>
    /\ UNCHANGED colorVars

\* The parent renders the component again with one prop changed.
SetProps(att, names, show) ==
    /\ status = "rendered"
    /\ <<att, names, show>> # <<attention, attentionHeadNames, showTokens>>
    /\ attention' = att
    /\ attentionHeadNames' = names
    /\ showTokens' = show
    /\ lastEvent' = Event("component", "props", NoIndex)
    /\ Rerender(att, names, show)
    /\ UNCHANGED <<focused, locked, focussedToken, lockedToken, tokensView>>
    /\ UNCHANGED colorVars

SetAttention(att) == SetProps(att, attentionHeadNames, showTokens)

SetAttentionHeadNames(names) == SetProps(attention, names, showTokens)

SetShowTokens(show) == SetProps(attention, attentionHeadNames, show)

Next ==
    \/ \E idx \in HeadCells : MouseEnterHead(idx)
    \/ \E idx \in HeadCells : MouseLeaveHead(idx)
    \/ \E idx \in HeadCells : ClickHead(idx)
    \/ \E idx \in TokenCells : MouseEnterToken(idx)
    \/ \E idx \in TokenCells : MouseLeaveToken(idx)
    \/ \E idx \in TokenCells : ClickToken(idx)
    \/ \E view \in TokensView : ChangeTokensView(view)
    \/ \E att \in AttentionProps : SetAttention(att)
    \/ \E names \in HeadNamesProps : SetAttentionHeadNames(names)
    \/ \E show \in BOOLEAN : SetShowTokens(show)

Spec == Init /\ [][Next]_vars

\* The component under pointer events on its head cells alone.
HeadEventsNext ==
    \/ \E idx \in HeadCells : MouseEnterHead(idx)
    \/ \E idx \in HeadCells : MouseLeaveHead(idx)
    \/ \E idx \in HeadCells : ClickHead(idx)

HeadEventsSpec == Init /\ [][HeadEventsNext]_vars

----------------------------------------------------------------------------
(* Direct calls of attentionHeadColor, for every head of every head count. *)

Alphas == {"100%", "60%"}

ColorInit ==
    /\ attention = Some(Tensor(1, 1, 1))
    /\ attentionHeadNames = Absent
    /\ showTokens = TRUE
    /\ focused = HeadsDefault
    /\ locked = FALSE
    /\ focussedToken = TokensDefault
    /\ lockedToken = FALSE
    /\ tokensView = "DESTINATION_TO_SOURCE"
    /\ status = "rendered"
    /\ coloredAttention = Colored(Tensor(1, 1, 1))
    /\ memoDeps = <<attention, showTokens>>
    /\ lastEvent = Event("component", "mount", NoIndex)
    /\ cN \in 1..MaxColorHeads
    /\ cIdx \in 0..(cN - 1)
    /\ cAlpha \in Alphas
    /\ cColor = ""
    /\ gridHues = <<>>

ColorCall ==
    /\ cColor = ""
    /\ cColor' = attentionHeadColor(cIdx, cN, cAlpha)
    /\ UNCHANGED <<cIdx, cN, cAlpha, gridHues>>
    /\ UNCHANGED compVars

ColorNext == ColorCall

ColorSpec == ColorInit /\ [][ColorNext]_vars

----------------------------------------------------------------------------
(* The colours of a whole grid: the selector calls attentionHeadColor(idx, *)
(* attention.length) for every idx of attention.map.                       *)

GridInit ==
    /\ attention = Some(Tensor(1, 1, 1))
    /\ attentionHeadNames = Absent
    /\ showTokens = TRUE
    /\ focused = HeadsDefault
    /\ locked = FALSE
    /\ focussedToken = TokensDefault
    /\ lockedToken = FALSE
    /\ tokensView = "DESTINATION_TO_SOURCE"
    /\ status = "rendered"
    /\ coloredAttention = Colored(Tensor(1, 1, 1))
    /\ memoDeps = <<attention, showTokens>>
    /\ lastEvent = Event("component", "mount", NoIndex)
    /\ cN \in 1..MaxGridHeads
    /\ cIdx = 0
    /\ cAlpha = "100%"
    /\ cColor = ""
    /\ gridHues = <<>>

GridColors ==
    /\ gridHues = <<>>
    /\ gridHues' = [i \in 1..cN |-> hueValue(i - 1, cN)]
    /\ UNCHANGED <<cIdx, cN, cAlpha, cColor>>
    /\ UNCHANGED compVars

GridNext == GridColors

GridSpec == GridInit /\ [][GridNext]_vars

----------------------------------------------------------------------------
(* Properties of the hover-lock instances. *)

\* The step handles an event of this type in this region.
Handles(region, type) == lastEvent'.region = region /\ lastEvent'.type = type

\* What a click on index k makes of an instance [f, l].
ClickResult(f, l, f2, l2, k) ==
    IF l /\ f = k THEN ~l2 ELSE f2 = k /\ l2

\* C1: a click on k in an instance that is unlocked, or locked on another
\* index, leaves it focused on k and locked after that one step; a click on
\* k in an instance locked on k leaves it unlocked.
C1_ClickLocksOrUnlocks ==
    [][/\ Handles("heads", "click") =>
            ClickResult(focused, locked, focused', locked', lastEvent'.index)
       /\ Handles("tokens", "click") =>
            ClickResult(focussedToken, lockedToken, focussedToken',
                        lockedToken', lastEvent'.index)]_vars

\* A click on head 1 has just locked the heads on it.
C1_Witness ==
    /\ lastEvent = Event("heads", "click", 1)
    /\ focused = 1
    /\ locked

\* C2: while the heads are locked on k, entering or leaving any cell leaves
\* the focused head as it is, and with it the zoomed label and the
\* arguments (focused, attention.length) of the zoomed label's colour.
C2_LockedFocusIgnoresHover ==
    [][(locked /\ lastEvent'.region = "heads"
               /\ lastEvent'.type \in {"mouseenter", "mouseleave"}) =>
         /\ focused' = focused
         /\ locked'
         /\ ZoomedLabel' = ZoomedLabel
         /\ numberOfHeads' = numberOfHeads]_vars

\* Locked on head 1 of 2, the pointer has just entered cell 0.
C2_Witness ==
    /\ numberOfHeads = 2
    /\ lastEvent = Event("heads", "mouseenter", 0)
    /\ locked
    /\ focused = 1
    /\ ZoomedColor = "hsla(180, 70%, 50%,  100%)"

\* C3: in an unlocked instance entering k focuses k and leaving puts the
\* focus back to the default the instance was created with (0 for the heads,
\* none for the tokens); the instance stays unlocked.
C3_HoverPreview ==
    [][/\ (~locked /\ Handles("heads", "mouseenter")) =>
            focused' = lastEvent'.index /\ ~locked'
       /\ (~locked /\ Handles("heads", "mouseleave")) =>
            focused' = HeadsDefault /\ ~locked'
       /\ (~lockedToken /\ Handles("tokens", "mouseenter")) =>
            focussedToken' = lastEvent'.index /\ ~lockedToken'
       /\ (~lockedToken /\ Handles("tokens", "mouseleave")) =>
            focussedToken' = TokensDefault /\ ~lockedToken']_vars

\* The pointer has just left token 0 of the unlocked tokens.
C3_Witness ==
    /\ lastEvent = Event("tokens", "mouseleave", 0)
    /\ ~lockedToken
    /\ focussedToken = TokensDefault

\* C4: the lock flag of an instance changes only in a click of its region,
\* and goes from locked to unlocked only in a click on the locked index.
C4_LockChangesOnlyByClick ==
    [][/\ locked' # locked => Handles("heads", "click")
       /\ (locked /\ ~locked') => lastEvent'.index = focused
       /\ lockedToken' # lockedToken => Handles("tokens", "click")
       /\ (lockedToken /\ ~lockedToken') => lastEvent'.index = focussedToken]_vars

\* A click on the locked head 1 has just unlocked the heads.
C4_Witness ==
    /\ lastEvent = Event("heads", "click", 1)
    /\ focused = 1
    /\ ~locked

\* The transition of one instance st on the event e of its own region.
OwnTransition(st, e, defaultIndex) ==
    CASE e.type = "mouseenter" -> onMouseEnter(st, e.index)
      [] e.type = "mouseleave" -> onMouseLeave(st, defaultIndex)
      [] e.type = "click" -> onClick(st, e.index)

\* C5: the two instances are independent: a step that handles no event of
\* a region leaves that region's focus and lock as they are, and a step
\* that handles one moves the region by its own state and that event alone.
C5_InstancesIndependent ==
    [][/\ IF lastEvent'.region = "heads"
          THEN HeadsState' = OwnTransition(HeadsState, lastEvent', HeadsDefault)
          ELSE HeadsState' = HeadsState
       /\ IF lastEvent'.region = "tokens"
          THEN TokensState' = OwnTransition(TokensState, lastEvent', TokensDefault)
          ELSE TokensState' = TokensState]_vars

\* A token has just been clicked while the heads are locked on head 1.
C5_Witness ==
    /\ lastEvent = Event("tokens", "click", 0)
    /\ focussedToken = 0
    /\ lockedToken
    /\ focused = 1
    /\ locked

\* C6: changing the tokens view, in either direction, leaves the focus and
\* the lock of both instances as they are.
C6_ViewChangeKeepsFocus ==
    [][tokensView' # tokensView =>
         /\ lastEvent'.region = "select"
         /\ HeadsState' = HeadsState
         /\ TokensState' = TokensState]_vars

\* The view has just been changed back to DESTINATION_TO_SOURCE with both
\* instances locked.
C6_Witness ==
    /\ lastEvent = Event("select", "change", NoIndex)
    /\ tokensView = "DESTINATION_TO_SOURCE"
    /\ locked
    /\ focused = 1
    /\ lockedToken
    /\ focussedToken = 0

----------------------------------------------------------------------------
(* Properties of the derived values. *)

\* A tensor with no head, or a head with no destination position, or a
\* destination position with no source position.
Degenerate(t) ==
    \/ Len(t) = 0
    \/ \E h \in DOMAIN t :
          \/ Len(t[h]) = 0
          \/ \E d \in DOMAIN t[h] : Len(t[h][d]) = 0

\* C7: in a rendered component coloredAttention is null exactly when
\* showTokens is false or the tensor has no heads, no destination positions
\* or no source positions; otherwise it is the collaborator's result for the
\* tensor, and the collaborator is never given a degenerate tensor.
C7_NullExactlyWhenGuarded ==
    status = "rendered" =>
        /\ (coloredAttention = Null) <=>
              (~showTokens \/ Degenerate(attention.value))
        /\ coloredAttention # Null =>
              coloredAttention = Colored(attention.value)
        /\ coloredAttention.data => ~Degenerate(coloredAttention.of)

\* Tokens are shown for 2 heads with one destination position and no source
\* position, and there is no colouring.
C7_Witness ==
    /\ status = "rendered"
    /\ showTokens
    /\ attention = Some(Tensor(2, 1, 0))
    /\ coloredAttention = Null

\* C8: every head cell is labelled with its supplied name where the
\* supplied list has one, and with the generated "Head i" where it has not
\* (the list absent, or shorter than the head count).
C8_PerIndexFallback ==
    status = "rendered" =>
        \A idx \in HeadCells :
            SelectorLabel(idx) =
                IF attentionHeadNames.defined
                   /\ idx < Len(attentionHeadNames.value)
                THEN attentionHeadNames.value[idx + 1]
                ELSE "Head " \o NumberToString(idx)

\* C9: with an empty or an absent tensor the component renders without an
\* error, the colouring is null and the token overlay is not shown.
C9_EmptyOrAbsentRenders ==
    (~attention.defined \/ Len(attention.value) = 0) =>
        /\ status = "rendered"
        /\ coloredAttention = Null
        /\ ~TokensShown

----------------------------------------------------------------------------
(* Properties of attentionHeadColor. *)

\* The colour string with hue h and opacity alpha.
Hsla(h, alpha) == "hsla(" \o NumberToString(h) \o ", 70%, 50%,  " \o alpha \o ")"

\* h is an integer nearest to idx * 360 / n: |h - idx * 360 / n| <= 1/2.
NearestHue(h, idx, n) ==
    /\ 2 * n * h - n <= 720 * idx
    /\ 720 * idx <= 2 * n * h + n

\* idx * 360 / n rounded to the nearest integer, one half going up.
RoundHalfUp(idx, n) == (720 * idx + n) \div (2 * n)

\* C10 as stated: the hue is round(index * 360 / headCount), with saturation
\* 70%, lightness 50% and the caller's opacity.
C10_HueIsRounded ==
    cColor # "" => cColor = Hsla(RoundHalfUp(cIdx, cN), cAlpha)

\* C10 as amended: the hue is an integer nearest to index * 360 / headCount
\* (either neighbour where that is exactly half way between two), with
\* saturation 70%, lightness 50% and the caller's opacity, and is 0 for
\* index 0.
C10_HueIsNearest ==
    cColor # "" =>
        \E h \in 0..360 :
            /\ NearestHue(h, cIdx, cN)
            /\ cIdx = 0 => h = 0
            /\ cColor = Hsla(h, cAlpha)

\* Head 7 of 80: 7 * 360 / 80 is 31.5 and the hue is 31.
C10_Witness ==
    /\ cIdx = 7
    /\ cN = 80
    /\ cAlpha = "60%"
    /\ cColor = "hsla(31, 70%, 50%,  60%)"

----------------------------------------------------------------------------
(* Properties of the colours of a grid. *)

\* C11: for every head count the hue of the last head is below 360, and
\* the hues do not decrease from one head to the next.
C11_LastHueBelow360 ==
    gridHues # <<>> =>
        /\ gridHues[cN] < 360
        /\ \A i \in 1..(cN - 1) : gridHues[i] <= gridHues[i + 1]

\* C11 as amended: the hue of the last head is below 360 in a grid of fewer
\* than 720 heads and is 360 from 720 heads on, and for every head count the
\* hues do not decrease from one head to the next.
C11_LastHueBelow360Under720 ==
    gridHues # <<>> =>
        /\ cN < 720 => gridHues[cN] < 360
        /\ cN >= 720 => gridHues[cN] = 360
        /\ \A i \in 1..(cN - 1) : gridHues[i] <= gridHues[i + 1]

\* The grid of 719 heads: the last hue is 359.
C11_Witness ==
    /\ cN = 719
    /\ gridHues # <<>>
    /\ gridHues[cN] = 359

\* C16: in a grid of at most 360 heads no two heads have the same hue; in a
\* grid of 361 heads two heads have.
C16_DistinctHuesUpTo360 ==
    gridHues # <<>> =>
        /\ cN <= 360 => Cardinality({gridHues[i] : i \in 1..cN}) = cN
        /\ cN = 361 => Cardinality({gridHues[i] : i \in 1..cN}) < cN

\* The grid of 360 heads: head i has hue i.
C16_Witness ==
    /\ cN = 360
    /\ gridHues # <<>>
    /\ \A i \in 1..cN : gridHues[i] = i - 1

----------------------------------------------------------------------------
(* Properties of the component's state and views. *)

\* C12: at the first render the heads are focused on 0 and unlocked, the
\* tokens have no focus and are unlocked, and the view is
\* DESTINATION_TO_SOURCE.
C12_InitialState ==
    lastEvent.type = "mount" =>
        /\ focused = 0
        /\ ~locked
        /\ focussedToken = NoIndex
        /\ ~lockedToken
        /\ tokensView = "DESTINATION_TO_SOURCE"

\* A component of 2 heads has just been mounted and rendered.
C12_Witness ==
    /\ lastEvent = Event("component", "mount", NoIndex)
    /\ status = "rendered"
    /\ numberOfHeads = 2
    /\ focused = 0

\* C13: with at least one head, after any sequence of pointer events on the
\* head cells the focused head is an index of the tensor.
C13_FocusedHeadInRange ==
    (status = "rendered" /\ numberOfHeads >= 1) =>
        focused \in 0..(numberOfHeads - 1)

\* The pointer has just left cell 1 of 2 unlocked heads: the focus is back
\* on head 0.
C13_Witness ==
    /\ numberOfHeads = 2
    /\ lastEvent = Event("heads", "mouseleave", 1)
    /\ ~locked
    /\ focused = 0

\* The hues a colour string can carry.
HueStrings == {NumberToString(h) : h \in 0..360}

\* C14: the views agree on one head: at most one cell is highlighted, a cell
\* is highlighted exactly when it is the focused head, and for that cell the
\* zoomed heatmap and label are the cell's and the zoomed label's colour has
\* the hue of the cell's border, label and glow; the token overlay is given
\* the focused head.
C14_ViewsAgree ==
    status = "rendered" =>
        LET highlighted == {idx \in HeadCells : CellBoxShadow(idx) # "undefined"}
        IN /\ Cardinality(highlighted) <= 1
           /\ highlighted = HeadCells \cap {focused}
           /\ TokensFocusedHead = focused
           /\ \A idx \in highlighted :
                 /\ ZoomedAttention = CellAttention(idx)
                 /\ ZoomedLabel = SelectorLabel(idx)
                 /\ \E h \in HueStrings :
                       /\ ZoomedColor = "hsla(" \o h \o ", 70%, 50%,  100%)"
                       /\ CellBorderColor(idx) = ZoomedColor
                       /\ CellLabelBackground(idx) = ZoomedColor
                       /\ CellBoxShadow(idx) =
                            "0px 0px 4px 3px hsla(" \o h \o ", 70%, 50%,  60%)"

\* Head 1 of 2 is focused and highlighted in hue 180.
C14_Witness ==
    /\ status = "rendered"
    /\ numberOfHeads = 2
    /\ focused = 1
    /\ CellBoxShadow(1) = "0px 0px 4px 3px hsla(180, 70%, 50%,  60%)"
    /\ CellBoxShadow(0) = "undefined"
    /\ ZoomedColor = "hsla(180, 70%, 50%,  100%)"

\* C15: in every rendered state the memoized coloredAttention is what the
\* guarded derivation gives for the current attention and showTokens.
C15_MemoEqualsEager ==
    status = "rendered" =>
        coloredAttention = ColorAttention(attention, showTokens)

\* showTokens has been switched on after a lock on head 1: the colouring
\* has been derived anew.
C15_Witness ==
    /\ lastEvent = Event("component", "props", NoIndex)
    /\ status = "rendered"
    /\ locked
    /\ focused = 1
    /\ showTokens
    /\ coloredAttention = Colored(Tensor(2, 1, 1))

====
